---- MODULE Spec2Model ----
(***************************************************************************)
(* Model of tide_grabber.py: the TideGrabber class and the __main__ block. *)
(*                                                                         *)
(* The process is one sequential thread.  pc is its position, ret the      *)
(* place the running pullTide/checkResult pair returns to.  The external   *)
(* download tool (wget run through a shell) and the file system are the    *)
(* environment: a run of the tool ends with some exit code, some captured  *)
(* output, and either a file of some number of lines saved under the       *)
(* requested name or the file system left as it was.  Files are text       *)
(* files (decodable as UTF-8), as the service's responses are.             *)
(***************************************************************************)
EXTENDS Integers, Sequences, FiniteSets, TLC

VARIABLES argv, pc, ret, station_id, year, file_name, current_year,
          spot_i, year_i, fs, console, tool, indexed, exc,
          pulls, checks, faults

vars == <<argv, pc, ret, station_id, year, file_name, current_year,
          spot_i, year_i, fs, console, tool, indexed, exc,
          pulls, checks, faults>>

(* ---------------------------- bounds ----------------------------------- *)

\* Longest file the download tool leaves behind, in lines.
MaxLines == 15
\* Number of tool runs in one execution that differ from the nominal run
\* (exit 0, a complete response saved).
MaxFaults == 1

(* ------------------------ Python values -------------------------------- *)

\* A Python value held in a field: an int or a str.
PyInt(n) == [t |-> "int", v |-> n]
PyStr(s) == [t |-> "str", v |-> s]

\* str(v), as an f-string applies it to a substituted value.
Str(pv) == IF pv.t = "int" THEN ToString(pv.v) ELSE pv.v

\* range(a, b) as the sequence a, a+1, ..., b-1.
Range(a, b) == [i \in 1..(IF b > a THEN b - a ELSE 0) |-> a + i - 1]

\* White space removed by strip().
Whitespace == {" ", "\n", "\t", "\r"}

RECURSIVE LStrip(_)
LStrip(s) == IF s # <<>> /\ Head(s) \in Whitespace THEN LStrip(Tail(s)) ELSE s

RECURSIVE RStrip(_)
RStrip(s) == IF s # <<>> /\ s[Len(s)] \in Whitespace
             THEN RStrip(SubSeq(s, 1, Len(s) - 1)) ELSE s

\* std_out.strip(): the captured text without leading and trailing white space.
Strip(s) == RStrip(LStrip(s))

\* The characters of a captured text as one printed string.
RECURSIVE Text(_)
Text(s) == IF s = <<>> THEN "" ELSE Head(s) \o Text(Tail(s))

(* ------------------------ program constants ---------------------------- *)

\* The script's own name, sys.argv[0].
Script == "tide_grabber.py"

tide_spots == <<"9410583", "TWC0419", "9410230", "8512354",
                "8533071", "8652226", "8721649">>

\* range(current_year, current_year + 5)
YearSpan == 5
\* Variant: the range stops one year early.
years_short(cy) == Range(cy, cy + YearSpan - 1)
years(cy) == Range(cy, cy + YearSpan)

\* The five lines printHelp prints.
HelpText == <<
  "To run this script: python3 tide_grabber.py <Station ID> <year> or python3 tide_grabber.py auto",
  "If 'auto' argument passed in, it will automatically load designated tides",
  "Station ID can be found by visiting https://tidesandcurrents.noaa.gov/map/index.html?type=TidePredictions&region=, then selecting the desired location",
  "Years available are the current year +/- 2 years",
  "Example for Balboa Pier, Newport Beach 2023: python3 tide_grabber.py 9410583 2023">>

\* Variant: the offsets taken as line numbers counted from 1.
ReportOffsets_from1 == <<4, 6, 14>>
\* The 0-based offsets the success report reads, in the order the f-string
\* evaluates them.
ReportOffsets == <<3, 5, 13>>

\* f"tides_{station_id}_{year}.txt"
FileName(s, y) == "tides_" \o Str(s) \o "_" \o Str(y) \o ".txt"

(* ------------------------- environment --------------------------------- *)

\* Command lines the process is started with (sys.argv, script name first).
Argvs == { <<Script>>,
           <<Script, "auto">>,
           <<Script, "--help">>,
           <<Script, "9410583">>,
           <<Script, "9410583", "2026">>,
           <<Script, "auto", "2026">>,
           <<Script, "9410583", "2026", "auto">>,
           <<Script, "a", "b", "c", "d">> }

\* Values time.gmtime().tm_year returns.
CurrentYears == {2026}

\* A saved file: the response to the query (stnid, bdate), n lines long.
File(s, b, n) == [stnid |-> s, bdate |-> b, n |-> n]

\* The text of line i (0-based) of a file.
Line(f, i) == f.stnid \o "/" \o f.bdate \o ":" \o ToString(i)

\* file.readlines()
ReadLines(f) == [i \in 1..f.n |-> Line(f, i - 1)]

\* File systems the process may start in: an empty working directory, or one
\* holding a file left by an earlier run.
InitialFs == { <<>>,
               [nm \in {"tides_9410583_2026.txt"} |-> File("old", "old", 14)] }

\* Line counts of the files a tool run may leave.
LineCounts == {0, 1, 6, 13, 14, MaxLines}

\* How a tool run may end: exit code and captured stdout, stderr.
ToolExits == { [exit |-> 0, out |-> <<>>, err |-> "saved"],
               [exit |-> 1, out |-> <<" ", "E", "\n">>, err |-> "failed"] }

\* Every result of one tool run: saved = the file was (over)written with n lines.
ToolRuns == { [exit |-> e.exit, out |-> e.out, err |-> e.err, saved |-> TRUE, n |-> k] :
                e \in ToolExits, k \in LineCounts }
            \cup
            { [exit |-> e.exit, out |-> e.out, err |-> e.err, saved |-> FALSE, n |-> 0] :
                e \in ToolExits }

\* The run of a working tool against a working service.
NominalRun == [exit |-> 0, out |-> <<>>, err |-> "saved", saved |-> TRUE, n |-> 14]

NoRun == [exit |-> 0, out |-> <<>>, err |-> "", saved |-> FALSE, n |-> 0]

(* --------------------------- the program -------------------------------- *)

\* What the process has printed, one entry per print call.
Printed(kind, text) == [kind |-> kind, text |-> text]

printHelp == [i \in 1..Len(HelpText) |-> Printed("help", <<HelpText[i]>>)]

\* Variant: any command line of two or more arguments is taken as a request.
SingleRequest_atleast(av) == Len(av) >= 3
\* len(sys.argv) == 3: a station id and a year were given.
SingleRequest(av) == Len(av) = 3

\* Variant: the station id read one place early, from sys.argv[0].
RequestStation_argv0(av) == av[1]
\* sys.argv[1] and sys.argv[2] (sequences here start at 1).
RequestStation(av) == av[2]
RequestYear(av) == av[3]

\* The elif/else of parseArgs: every other command line but "auto" gets help.
UsageError(av) == IF Len(av) = 2 THEN av[2] # "auto" ELSE TRUE

\* len(sys.argv) == 2 and sys.argv[1] == "auto"
AutoMode(av) == Len(av) = 2 /\ av[2] = "auto"

\* The request holder's fields as parseArgs sets them from the command line.
ArgRequest(av) ==
  [station_id |-> PyStr(RequestStation(av)),
   year |-> PyStr(RequestYear(av)),
   file_name |-> PyStr(FileName(PyStr(RequestStation(av)), PyStr(RequestYear(av))))]

\* Variant: the loop body sets station and year and leaves file_name as it was.
LoopRequest_stale(spot, y) ==
  [station_id |-> PyStr(spot),
   year |-> PyInt(y),
   file_name |-> file_name]
\* The request holder's fields as the loop body sets them.
LoopRequest(spot, y) ==
  [station_id |-> PyStr(spot),
   year |-> PyInt(y),
   file_name |-> PyStr(FileName(PyStr(spot), PyInt(y)))]

Init ==
  /\ argv \in Argvs
  /\ fs \in InitialFs
  /\ pc = "construct"
  /\ ret = "none"
  /\ station_id = PyInt(0)
  /\ year = PyInt(0)
  /\ file_name = PyInt(0)
  /\ current_year = 0
  /\ spot_i = 1
  /\ year_i = 1
  /\ console = <<>>
  /\ tool = NoRun
  /\ indexed = <<>>
  /\ exc = "none"
  /\ pulls = <<>>
  /\ checks = <<>>
  /\ faults = 0

\* TideGrabber(): __init__ sets the fields and runs parseArgs, up to its call
\* of pullTide or its return.
ParseArgs ==
  /\ pc = "construct"
  /\ IF SingleRequest(argv)
     THEN /\ station_id' = ArgRequest(argv).station_id
          /\ year' = ArgRequest(argv).year
          /\ file_name' = ArgRequest(argv).file_name
          /\ pc' = "pullTide"
          /\ ret' = "main"
          /\ console' = console
     ELSE /\ IF UsageError(argv)
             THEN console' = console \o printHelp
             ELSE console' = console
          /\ pc' = "main"
          /\ UNCHANGED <<station_id, year, file_name, ret>>
  /\ UNCHANGED <<argv, current_year, spot_i, year_i, fs, tool, indexed, exc,
                 pulls, checks, faults>>

\* The command pullTide builds: where wget saves, and the query it sends.
command_string == [O |-> Str(file_name), stnid |-> Str(station_id), bdate |-> Str(year)]

\* The file system after a tool run r of command cmd.
RunEffect(files, cmd, r) ==
  IF r.saved
  THEN [nm \in (DOMAIN files) \cup {cmd.O} |->
          IF nm = cmd.O THEN File(cmd.stnid, cmd.bdate, r.n) ELSE files[nm]]
  ELSE files

\* What runcmd prints with verbose set: print(std_out.strip(), std_err)
runcmdEcho(r) == Printed("echo", <<Text(Strip(r.out)), r.err>>)

\* pullTide: build the command, run it to its end (runcmd), echo its output.
PullTide ==
  /\ pc = "pullTide"
  /\ \E r \in ToolRuns :
       /\ faults' = faults + (IF r = NominalRun THEN 0 ELSE 1)
       /\ faults' <= MaxFaults
       /\ tool' = r
       /\ fs' = RunEffect(fs, command_string, r)
       /\ console' = Append(console, runcmdEcho(r))
  /\ pulls' = Append(pulls, [station_id |-> station_id, year |-> year,
                             file_name |-> file_name])
  /\ pc' = "checkResult"
  /\ UNCHANGED <<argv, ret, station_id, year, file_name, current_year,
                 spot_i, year_i, indexed, exc, checks>>

\* The f-string of the success report: the offsets are read in order; the
\* first one past the end raises IndexError and nothing is printed.
RECURSIVE Subscripts(_, _, _)
Subscripts(lines, offs, k) ==
  IF k > Len(offs) THEN [read |-> offs, raised |-> FALSE]
  ELSE IF offs[k] >= Len(lines)
       THEN [read |-> SubSeq(offs, 1, k), raised |-> TRUE]
       ELSE Subscripts(lines, offs, k + 1)

\* The body of checkResult on the file system files: what it prints, which
\* subscripts of lines it evaluates, and the exception it ends with.
\* Variant: the emptiness test compares with 1.
IsEmpty_one(lines) == Len(lines) = 1
\* len(lines) == 0
IsEmpty(lines) == Len(lines) = 0

\* Variant: the report is printed line by line, so the lines read before
\* the failing subscript are already on the console when it raises.
checkLines_piecewise(lines) ==
  IF IsEmpty(lines)
  THEN [print |-> <<Printed("error", <<"ERROR: File is empty check your input">>)>>,
        read |-> <<>>, exc |-> "none"]
  ELSE LET s == Subscripts(lines, ReportOffsets, 1)
           got == IF s.raised THEN Len(s.read) - 1 ELSE Len(s.read) IN
       [print |-> <<Printed("success",
                      <<"Download Successful for:">> \o
                      [k \in 1..got |-> lines[ReportOffsets[k] + 1]])>>,
        read |-> s.read,
        exc |-> IF s.raised THEN "IndexError" ELSE "none"]

\* The if/else of checkResult on the lines read.
checkLines(lines) ==
  IF IsEmpty(lines)
  THEN [print |-> <<Printed("error", <<"ERROR: File is empty check your input">>)>>,
        read |-> <<>>, exc |-> "none"]
  ELSE LET s == Subscripts(lines, ReportOffsets, 1) IN
       IF s.raised
       THEN [print |-> <<>>, read |-> s.read, exc |-> "IndexError"]
       ELSE [print |-> <<Printed("success",
                           <<"Download Successful for:">> \o
                           [k \in 1..Len(ReportOffsets) |-> lines[ReportOffsets[k] + 1]])>>,
             read |-> s.read, exc |-> "none"]

\* Variant: a non-zero exit code of the download tool is reported as an error
\* before the file is looked at.
checkResult_exitcode(files, name) ==
  IF tool.exit # 0
  THEN [print |-> <<Printed("error", <<"ERROR: download failed">>)>>,
        read |-> <<>>, exc |-> "none"]
  ELSE IF name \notin DOMAIN files
       THEN [print |-> <<>>, read |-> <<>>, exc |-> "FileNotFoundError"]
       ELSE checkLines(ReadLines(files[name]))

\* The body of checkResult on the file system files: open the file (a
\* missing one raises FileNotFoundError), read its lines, report on them.
\* The result is what it prints, which subscripts of lines it evaluates, and
\* the exception it ends with.
checkResult(files, name) ==
  IF name \notin DOMAIN files
  THEN [print |-> <<>>, read |-> <<>>, exc |-> "FileNotFoundError"]
  ELSE checkLines(ReadLines(files[name]))

\* checkResult, run to its return or to the exception that leaves it; an
\* exception is caught nowhere and ends the process.
CheckResult ==
  /\ pc = "checkResult"
  /\ LET res == checkResult(fs, Str(file_name)) IN
       /\ console' = console \o res.print
       /\ indexed' = res.read
       /\ exc' = res.exc
       /\ pc' = IF res.exc = "none" THEN ret ELSE "uncaught"
  /\ checks' = Append(checks, [station_id |-> station_id, year |-> year,
                               file_name |-> file_name])
  /\ UNCHANGED <<argv, ret, station_id, year, file_name, current_year,
                 spot_i, year_i, fs, tool, pulls, faults>>

\* __main__ after the constructor: enter auto mode or fall off the end.
Main ==
  /\ pc = "main"
  /\ IF AutoMode(argv)
     THEN /\ \E cy \in CurrentYears : current_year' = cy
          /\ spot_i' = 1
          /\ year_i' = 1
          /\ pc' = "loop"
     ELSE /\ pc' = "exit"
          /\ UNCHANGED <<current_year, spot_i, year_i>>
  /\ UNCHANGED <<argv, ret, station_id, year, file_name, fs, console, tool,
                 indexed, exc, pulls, checks, faults>>

\* One pass of the inner loop's head: the next year of the current spot is
\* stored in the request holder, up to the call of pullTide.
LoopNextYear ==
  /\ pc = "loop"
  /\ spot_i <= Len(tide_spots)
  /\ year_i <= Len(years(current_year))
  /\ LET req == LoopRequest(tide_spots[spot_i], years(current_year)[year_i]) IN
       /\ station_id' = req.station_id
       /\ year' = req.year
       /\ file_name' = req.file_name
  /\ year_i' = year_i + 1
  /\ pc' = "pullTide"
  /\ ret' = "loop"
  /\ UNCHANGED <<argv, current_year, spot_i, fs, console, tool, indexed, exc,
                 pulls, checks, faults>>

\* The inner loop is exhausted: the outer loop moves to the next spot.
LoopNextSpot ==
  /\ pc = "loop"
  /\ spot_i <= Len(tide_spots)
  /\ year_i > Len(years(current_year))
  /\ spot_i' = spot_i + 1
  /\ year_i' = 1
  /\ UNCHANGED <<argv, pc, ret, station_id, year, file_name, current_year,
                 fs, console, tool, indexed, exc, pulls, checks, faults>>

\* The outer loop is exhausted: the script ends.
LoopEnd ==
  /\ pc = "loop"
  /\ spot_i > Len(tide_spots)
  /\ pc' = "exit"
  /\ UNCHANGED <<argv, ret, station_id, year, file_name, current_year,
                 spot_i, year_i, fs, console, tool, indexed, exc, pulls,
                 checks, faults>>

Next ==
  \/ ParseArgs
  \/ PullTide
  \/ CheckResult
  \/ Main
  \/ LoopNextYear
  \/ LoopNextSpot
  \/ LoopEnd

Spec == Init /\ [][Next]_vars

(* ----------------------------- properties ------------------------------- *)

\* The command line shapes.
TwoArgs == Len(argv) = 3
OnlyAuto == Len(argv) = 2 /\ argv[2] = "auto"

\* The process has ended, normally or by an uncaught exception.
Ended == pc \in {"exit", "uncaught"}

\* The help lines on the console.
HelpLines == SelectSeq(console, LAMBDA e : e.kind = "help")

\* What has been printed since the download tool's output was last echoed.
RECURSIVE AfterLastEcho(_)
AfterLastEcho(c) ==
  IF c = <<>> \/ c[Len(c)].kind = "echo" THEN <<>>
  ELSE Append(AfterLastEcho(SubSeq(c, 1, Len(c) - 1)), c[Len(c)])

\* checkResult has run on the request fetched last.
Checked == Len(checks) > 0 /\ Len(checks) = Len(pulls)

\* The name checkResult opened last, and whether a file of that name exists.
CheckedName == Str(checks[Len(checks)].file_name)
CheckedFileExists == CheckedName \in DOMAIN fs
CheckedFile == fs[CheckedName]

\* The name a request for station s and year y has to be saved under.
TidesName(s, y) == "tides_" \o Str(s) \o "_" \o Str(y) \o ".txt"

\* C1: started with exactly two arguments (stationId, year), the run performs
\* exactly one fetch-and-validate: pullTide once, checkResult once after it,
\* both for the station and year given, and no help text is printed.
C1_SingleRequestOnce ==
  TwoArgs =>
    /\ HelpLines = <<>>
    /\ Len(pulls) <= 1
    /\ Len(checks) <= Len(pulls)
    /\ \A i \in 1..Len(pulls) :
         /\ Str(pulls[i].station_id) = argv[2]
         /\ Str(pulls[i].year) = argv[3]
    /\ \A i \in 1..Len(checks) :
         /\ Str(checks[i].station_id) = argv[2]
         /\ Str(checks[i].year) = argv[3]
    /\ pc \in {"checkResult"} => Len(pulls) = 1 /\ Len(checks) = 0
    /\ Ended => Len(pulls) = 1 /\ Len(checks) = 1

C1_Witness ==
  /\ TwoArgs
  /\ pc = "exit"
  /\ Len(pulls) = 1
  /\ Len(checks) = 1

\* The seven built-in station ids.
BuiltInStations == {"9410583", "TWC0419", "9410230", "8512354",
                    "8533071", "8652226", "8721649"}

\* The (station, year) pairs fetched so far.
FetchedPairs == { <<Str(pulls[i].station_id), pulls[i].year.v>> : i \in 1..Len(pulls) }

\* C2: started with the single argument "auto", a run in which every request
\* completes performs exactly 35 fetch-and-validate operations, none of them in
\* the constructor: each built-in station with each year of
\* [currentYear, currentYear+4] exactly once, nothing else, and no help text.
C2_AutoFetchesAll35 ==
  OnlyAuto =>
    /\ pc \in {"construct", "main"} => pulls = <<>> /\ checks = <<>>
    /\ HelpLines = <<>>
    /\ pc = "exit" =>
         /\ Len(pulls) = 35
         /\ checks = pulls
         /\ \A i \in 1..Len(pulls) : pulls[i].year.t = "int"
         /\ FetchedPairs = BuiltInStations \X (current_year .. current_year + 4)
         /\ Cardinality(FetchedPairs) = 35

C2_Witness ==
  /\ OnlyAuto
  /\ pc = "exit"
  /\ Len(checks) = 35

\* C3: for every other command line (no argument, one argument that is not
\* "auto", three or more arguments) nothing is fetched, no file is created or
\* validated, the help text is printed exactly once and the process ends
\* normally.
C3_OtherArgsOnlyHelp ==
  (~TwoArgs /\ ~OnlyAuto) =>
    /\ pulls = <<>>
    /\ checks = <<>>
    /\ fs \in InitialFs
    /\ pc \in {"construct", "main", "exit"}
    /\ pc = "construct" => console = <<>>
    /\ pc \in {"main", "exit"} =>
         /\ Len(console) = Len(HelpText)
         /\ \A i \in 1..Len(console) :
              console[i].kind = "help" /\ console[i].text = <<HelpText[i]>>

C3_Witness ==
  /\ Len(argv) > 3
  /\ pc = "exit"
  /\ Len(console) = 5

\* C4: whenever pullTide or checkResult is invoked, in single-request mode and
\* in every iteration of auto mode, file_name is "tides_<station_id>_<year>.txt"
\* for the holder's current station_id and year; the file validated is the one
\* named for the request just fetched, not a name of an earlier iteration.
C4_FileNameMatchesRequest ==
  /\ pc \in {"pullTide", "checkResult"} =>
       /\ file_name.t = "str"
       /\ file_name.v = TidesName(station_id, year)
  /\ \A i \in 1..Len(pulls) :
       /\ pulls[i].file_name.t = "str"
       /\ pulls[i].file_name.v = TidesName(pulls[i].station_id, pulls[i].year)
  /\ \A i \in 1..Len(checks) :
       /\ checks[i].file_name.t = "str"
       /\ checks[i].file_name.v = TidesName(checks[i].station_id, checks[i].year)
       /\ checks[i].file_name.v = pulls[i].file_name.v
       /\ i > 1 => checks[i].file_name.v # checks[i - 1].file_name.v

C4_Witness ==
  /\ OnlyAuto
  /\ pc = "checkResult"
  /\ Len(checks) = 6
  /\ file_name.t = "str"
  /\ file_name.v = "tides_TWC0419_2027.txt"

\* C5: when the fetch leaves a file of zero lines, checkResult reports the
\* empty-file error, evaluates no subscript of the line list, prints no
\* success report and returns normally.
C5_EmptyFileReported ==
  (Checked /\ CheckedFileExists /\ CheckedFile.n = 0) =>
    /\ AfterLastEcho(console) =
         <<[kind |-> "error", text |-> <<"ERROR: File is empty check your input">>]>>
    /\ indexed = <<>>
    /\ exc = "none"
    /\ pc # "uncaught"

C5_Witness ==
  /\ Checked
  /\ CheckedFileExists
  /\ CheckedFile.n = 0
  /\ tool.saved
  /\ pc \in {"main", "loop"}

\* C6: when the fetch leaves a file of 14 or more lines, checkResult reports
\* success with exactly the lines at 0-based offsets 3, 5 and 13 of that file,
\* in that order, and reports no empty-file error.
C6_SuccessShowsLines ==
  (Checked /\ CheckedFileExists /\ CheckedFile.n >= 14) =>
    /\ AfterLastEcho(console) =
         <<[kind |-> "success",
            text |-> <<"Download Successful for:",
                       ReadLines(CheckedFile)[4],
                       ReadLines(CheckedFile)[6],
                       ReadLines(CheckedFile)[14]>>]>>
    /\ indexed = <<3, 5, 13>>
    /\ exc = "none"

C6_Witness ==
  /\ Checked
  /\ CheckedFileExists
  /\ CheckedFile.n > 14
  /\ Len(AfterLastEcho(console)) = 1
  /\ AfterLastEcho(console)[1].text[4] = "9410583/2026:13"

\* C7 (as claimed): in auto mode no outcome of a request aborts the batch:
\* whatever checkResult finds, the loop goes on to the next request.
C7_BatchNeverAborts ==
  [][(OnlyAuto /\ pc = "checkResult") => pc' = "loop"]_vars

\* C8 (as claimed): on every path no exception propagates out of the program;
\* the run never is in the uncaught-error state.
C8_NoUncaughtException == pc # "uncaught"

\* The outcome checkResult reported for the request checked last.
ReportedOutcome ==
  IF exc # "none" THEN exc
  ELSE IF AfterLastEcho(console) = <<>> THEN "nothing"
       ELSE AfterLastEcho(console)[1].kind

\* C9: the outcome reported for a request is determined by the saved file
\* alone, whatever the download tool's exit code and captured output: an empty
\* file is the empty-file error and a file of 14 or more lines is success also
\* when the tool failed.
C9_OutcomeFromFileOnly ==
  Checked =>
    /\ Len(AfterLastEcho(console)) <= 1
    /\ ReportedOutcome =
         IF ~CheckedFileExists THEN "FileNotFoundError"
         ELSE IF CheckedFile.n = 0 THEN "error"
         ELSE IF CheckedFile.n < 14 THEN "IndexError"
         ELSE "success"

C9_Witness ==
  /\ Checked
  /\ tool.exit # 0
  /\ tool.err = "failed"
  /\ CheckedFileExists
  /\ CheckedFile.n >= 14
  /\ ReportedOutcome = "success"

\* C10: when the fetch leaves a file of 1 to 13 lines, checkResult takes the
\* success branch and a subscript is out of bounds: it ends in IndexError and
\* has printed neither the empty-file error nor any success report, not even
\* the lines at offsets 3 and 5 when the file has them.
C10_ShortFileRaises ==
  (Checked /\ CheckedFileExists /\ CheckedFile.n >= 1 /\ CheckedFile.n <= 13) =>
    /\ exc = "IndexError"
    /\ pc = "uncaught"
    /\ AfterLastEcho(console) = <<>>
    /\ indexed # <<>>
    /\ indexed[Len(indexed)] >= CheckedFile.n

C10_Witness ==
  /\ Checked
  /\ CheckedFileExists
  /\ CheckedFile.n = 6
  /\ exc = "IndexError"
  /\ indexed = <<3, 5, 13>>

====
